---------------------------- MODULE Spec2Model ----------------------------
(***************************************************************************)
(* A model of corenet/engine/utils.py: the helpers a training loop calls   *)
(* to pick a mixed-precision context, infer a batch size, flatten metric   *)
(* dictionaries and dispatch scalars to logging backends.                  *)
(*                                                                         *)
(* The helpers share no state.  A behaviour is one call: Init draws the    *)
(* function and its arguments (and what the environment will answer), and  *)
(* the function's action runs the whole body and leaves the outcome in     *)
(* `out`, with pc = "returned" or pc = "raised".                           *)
(***************************************************************************)
EXTENDS Integers, Sequences, FiniteSets, TLC

VARIABLES
    fn,     \* the helper being called
    pc,     \* "call" before the body runs, then "returned" or "raised"
    args,   \* the arguments and the environment's answers, a record
    out     \* what the call produced: result, exception, side effects

vars == <<fn, pc, args, out>>

\* Python's None, where a string is expected.
None == "<None>"

NoOut == [exc |-> "none"]

(***************************************************************************)
(* get_log_writers                                                         *)
(***************************************************************************)

OptionNames ==
    {"common.tensorboard_logging", "common.bolt_logging",
     "common.hub.logging", "common.file_logging"}

\* An argparse.Namespace restricted to the four logging options: an option
\* that is not set is not in the domain.
Namespaces == UNION {[S -> BOOLEAN] : S \in SUBSET OptionNames}

SaveLocations == {None, "results"}

\* What the environment answers to the imports and to HubLogger(opts).
Environments ==
    [tb_import : {"ok", "ImportError"},
     bolt_import : {"ok", "ModuleNotFoundError"},
     hub_import : {"ok", "ModuleNotFoundError"},
     hub_init : {"ok", "Exception"}]

\* getattr(opts, name, default)
getattr_default(opts, name, default) ==
    IF name \in DOMAIN opts THEN opts[name] ELSE default

\* The function's locals and its effects so far.
GlwStart ==
    [log_writers |-> <<>>, dirs |-> {}, imports |-> {}, read |-> {},
     logs |-> <<>>, exc |-> "none"]

\* "{}/tb_logs".format(save_location)
tb_exp_dir(save_location) == save_location \o "/tb_logs"

\* os.path.join(save_location, "stats.pt")
stats_path(save_location) == save_location \o "/" \o "stats.pt"

\* Lines 137-152: the tensorboard writer.
GlwTensorboard(st, opts, save_location, env) ==
    LET read1 == [st EXCEPT !.read = @ \cup {"common.tensorboard_logging"}]
        tensorboard_logging ==
            getattr_default(opts, "common.tensorboard_logging", FALSE)
    IN  IF tensorboard_logging /\ save_location # None
        THEN LET tried == [read1 EXCEPT !.imports = @ \cup {"SummaryWriter"}]
             IN  IF env.tb_import = "ok"
                 THEN [tried EXCEPT
                         !.dirs = @ \cup {tb_exp_dir(save_location)},
                         !.log_writers = Append(@,
                             [cls |-> "SummaryWriter",
                              arg |-> tb_exp_dir(save_location)])]
                 ELSE [tried EXCEPT !.logs = Append(@,
                         "Unable to import SummaryWriter from torch.utils.tensorboard. Disabling tensorboard logging")]
        ELSE read1

\* Lines 154-164: the bolt writer.
GlwBolt(st, opts, env) ==
    LET read1 == [st EXCEPT !.read = @ \cup {"common.bolt_logging"}]
        bolt_logging == getattr_default(opts, "common.bolt_logging", FALSE)
    IN  IF bolt_logging
        THEN LET tried == [read1 EXCEPT !.imports = @ \cup {"BoltLogger"}]
             IN  IF env.bolt_import = "ok"
                 THEN [tried EXCEPT !.log_writers = Append(@,
                         [cls |-> "BoltLogger", arg |-> ""])]
                 ELSE [tried EXCEPT !.logs = Append(@,
                         "Unable to import bolt. Disabling bolt logging")]
        ELSE read1

\* GlwHub with the test `hub_logger is not None` forgotten: what the failed
\* construction left is appended all the same.
GlwHub_NoNoneTest(st, opts, env) ==
    LET read1 == [st EXCEPT !.read = @ \cup {"common.hub.logging"}]
        hub_logging == getattr_default(opts, "common.hub.logging", FALSE)
    IN  IF hub_logging
        THEN LET tried == [read1 EXCEPT !.imports = @ \cup {"HubLogger"}]
             IN  IF env.hub_import # "ok"
                 THEN [tried EXCEPT !.logs = Append(@,
                         "Unable to import hub. Disabling hub logging")]
                 ELSE IF env.hub_init # "ok"
                 THEN [tried EXCEPT
                         !.logs = Append(@,
                           "Unable to initialize hub logger. Disabling hub logging"),
                         !.log_writers = Append(@,
                           [cls |-> "HubLogger", arg |-> "opts"])]
                 ELSE [tried EXCEPT !.log_writers = Append(@,
                         [cls |-> "HubLogger", arg |-> "opts"])]
        ELSE read1

\* Lines 166-184: the hub writer.
GlwHub(st, opts, env) ==
    LET read1 == [st EXCEPT !.read = @ \cup {"common.hub.logging"}]
        hub_logging == getattr_default(opts, "common.hub.logging", FALSE)
    IN  IF hub_logging
        THEN LET tried == [read1 EXCEPT !.imports = @ \cup {"HubLogger"}]
             IN  IF env.hub_import # "ok"
                 THEN [tried EXCEPT !.logs = Append(@,
                         "Unable to import hub. Disabling hub logging")]
                 ELSE IF env.hub_init # "ok"
                 THEN [tried EXCEPT !.logs = Append(@,
                         "Unable to initialize hub logger. Disabling hub logging")]
                 ELSE [tried EXCEPT !.log_writers = Append(@,
                         [cls |-> "HubLogger", arg |-> "opts"])]
        ELSE read1

\* GlwFile with the test `save_location is not None` forgotten.
GlwFile_NoSaveLocationTest(st, opts, save_location) ==
    LET read1 == [st EXCEPT !.read = @ \cup {"common.file_logging"}]
    IN  IF "common.file_logging" \notin DOMAIN opts
        THEN [read1 EXCEPT !.exc = "AttributeError"]
        ELSE IF opts["common.file_logging"]
        THEN [read1 EXCEPT !.log_writers = Append(@,
                [cls |-> "FileLogger", arg |-> save_location \o "/stats.pt"])]
        ELSE read1

\* Lines 186-188: the file writer.  getattr has no default here: an option
\* that is not set raises AttributeError.
GlwFile(st, opts, save_location) ==
    LET read1 == [st EXCEPT !.read = @ \cup {"common.file_logging"}]
    IN  IF "common.file_logging" \notin DOMAIN opts
        THEN [read1 EXCEPT !.exc = "AttributeError"]
        ELSE IF opts["common.file_logging"] /\ save_location # None
        THEN [read1 EXCEPT !.log_writers = Append(@,
                [cls |-> "FileLogger", arg |-> stats_path(save_location)])]
        ELSE read1

\* get_log_writers with the early return of non-master nodes forgotten.
get_log_writers_NoMasterTest(opts, save_location, is_master_node, env) ==
    GlwFile(
      GlwHub(
        GlwBolt(
          GlwTensorboard(GlwStart, opts, save_location, env),
          opts, env),
        opts, env),
      opts, save_location)

\* The whole body, lines 130-190.
get_log_writers(opts, save_location, is_master_node, env) ==
    IF ~is_master_node
    THEN GlwStart
    ELSE GlwFile(
            GlwHub(
              GlwBolt(
                GlwTensorboard(GlwStart, opts, save_location, env),
                opts, env),
              opts, env),
            opts, save_location)

InitGetLogWriters ==
    /\ fn = "get_log_writers"
    /\ pc = "call"
    /\ \E opts \in Namespaces, save_location \in SaveLocations,
          is_master_node \in BOOLEAN, env \in Environments :
         args = [opts |-> opts, save_location |-> save_location,
                 is_master |-> is_master_node, env |-> env]
    /\ out = NoOut

CallGetLogWriters ==
    /\ fn = "get_log_writers"
    /\ pc = "call"
    /\ out' = get_log_writers(args.opts, args.save_location,
                              args.is_master, args.env)
    /\ pc' = IF out'.exc = "none" THEN "returned" ELSE "raised"
    /\ UNCHANGED <<fn, args>>

(***************************************************************************)
(* autocast_fn                                                             *)
(***************************************************************************)

\* Line 20: the supported precision names and their torch dtypes.
str_to_torch_dtype ==
    [n \in {"float16", "bfloat16"} |->
        IF n = "float16" THEN "torch.float16" ELSE "torch.bfloat16"]

AmpPrecisions == {"float16", "bfloat16", "float32", "float64", "int8", None}

\* corenet.utils.logger.error: reports the message and ends the call; it
\* does not return to its caller.
logger_error(message) ==
    [exc |-> "SystemExit", reported |-> <<message>>]

\* torch.cuda.amp.autocast(enabled, dtype): the context handed back.
autocast(enabled, dtype) ==
    [exc |-> "none", reported |-> <<>>,
     result |-> [enabled |-> enabled, dtype |-> dtype]]

\* autocast_fn with the CUDA test forgotten.
autocast_fn_NoCudaTest(enabled, amp_precision, cuda_is_available) ==
    IF enabled
    THEN IF amp_precision \notin DOMAIN str_to_torch_dtype
         THEN logger_error("For Mixed-precision training, supported dtypes are float16, bfloat16")
         ELSE autocast(TRUE, str_to_torch_dtype[amp_precision])
    ELSE autocast(FALSE, "torch.float16")

\* Lines 23-40.
autocast_fn(enabled, amp_precision, cuda_is_available) ==
    IF enabled
    THEN IF amp_precision \notin DOMAIN str_to_torch_dtype
         THEN logger_error("For Mixed-precision training, supported dtypes are float16, bfloat16")
         ELSE IF ~cuda_is_available
         THEN logger_error("For mixed-precision training, CUDA device is required.")
         ELSE autocast(TRUE, str_to_torch_dtype[amp_precision])
    ELSE autocast(FALSE, "torch.float16")

InitAutocast ==
    /\ fn = "autocast_fn"
    /\ pc = "call"
    /\ \E enabled \in BOOLEAN, amp_precision \in AmpPrecisions,
          cuda \in BOOLEAN :
         args = [enabled |-> enabled, amp_precision |-> amp_precision,
                 cuda |-> cuda]
    /\ out = NoOut

CallAutocast ==
    /\ fn = "autocast_fn"
    /\ pc = "call"
    /\ out' = autocast_fn(args.enabled, args.amp_precision, args.cuda)
    /\ pc' = IF out'.exc = "none" THEN "returned" ELSE "raised"
    /\ UNCHANGED <<fn, args>>

(***************************************************************************)
(* get_batch_size                                                          *)
(***************************************************************************)

\* Largest size of a tensor dimension.
MaxDim == 1

\* Largest length of a list.
MaxLen == 1

\* Largest number of values (containers and leaves) in one input.
MaxNodes == 3

BatchKeys == {"image", "video", "audio", "label"}

\* A tensor is its shape; a scalar tensor has the empty shape.
Tensors ==
    {[kind |-> "Tensor", shape |-> s] :
        s \in UNION {[1..r -> 0..MaxDim] : r \in 0..2}}

\* A list is its elements, which the function never looks at.
Lists ==
    {[kind |-> "List", elems |-> e] :
        e \in UNION {[1..n -> {"item"}] : n \in 0..MaxLen}}

\* Values that are neither tensor, dict nor list.
Others == {[kind |-> k] : k \in {"NoneType", "int", "tuple"}}

BatchLeaves == Tensors \cup Lists \cup Others

\* The number of values in x, x included.
RECURSIVE NodeCount(_), NodeCountSum(_, _)
NodeCount(x) ==
    IF x.kind = "Dict"
    THEN 1 + NodeCountSum(x.items, DOMAIN x.items)
    ELSE 1

NodeCountSum(f, S) ==
    IF S = {} THEN 0
    ELSE LET k == CHOOSE k \in S : TRUE
         IN  NodeCount(f[k]) + NodeCountSum(f, S \ {k})

\* Every value of at most n nodes: a leaf, or a dict from some of the keys
\* to smaller values.
RECURSIVE BatchValues(_)
BatchValues(n) ==
    IF n <= 0 THEN {}
    ELSE BatchLeaves \cup
         {[kind |-> "Dict", items |-> f] :
            f \in UNION {
                {g \in [S -> BatchValues(IF S = {} THEN 0
                                         ELSE n - Cardinality(S))] :
                    NodeCountSum(g, S) <= n - 1} :
                S \in SUBSET BatchKeys}}

BatchInputs == BatchValues(MaxNodes)

\* FirstPresent searching the keys from the last to the first.
RECURSIVE LastPresent(_, _)
LastPresent(keys, items) ==
    IF keys = <<>> THEN None
    ELSE IF keys[Len(keys)] \in DOMAIN items THEN keys[Len(keys)]
    ELSE LastPresent(SubSeq(keys, 1, Len(keys) - 1), items)

\* Lines 47-49: the first of image, video, audio that x has, or None.
RECURSIVE FirstPresent(_, _)
FirstPresent(keys, items) ==
    IF keys = <<>> THEN None
    ELSE IF Head(keys) \in DOMAIN items THEN Head(keys)
    ELSE FirstPresent(Tail(keys), items)

\* shape0 reading the last dimension, x.shape[-1].
shape_last(x) ==
    IF Len(x.shape) = 0
    THEN [exc |-> "IndexError", result |-> 0]
    ELSE [exc |-> "none", result |-> x.shape[Len(x.shape)]]

\* x.shape[0], line 45: a scalar tensor has no shape[0].
shape0(x) ==
    IF Len(x.shape) = 0
    THEN [exc |-> "IndexError", result |-> 0]
    ELSE [exc |-> "none", result |-> x.shape[1]]

\* Lines 43-54.
RECURSIVE get_batch_size(_)
get_batch_size(x) ==
    IF x.kind = "Tensor" THEN shape0(x)
    ELSE IF x.kind = "Dict"
    THEN LET key == FirstPresent(<<"image", "video", "audio">>, x.items)
         IN  IF key # None
             THEN get_batch_size(x.items[key])
             ELSE [exc |-> "NotImplementedError", result |-> 0]
    ELSE IF x.kind = "List"
    THEN [exc |-> "none", result |-> Len(x.elems)]
    ELSE [exc |-> "NotImplementedError", result |-> 0]

InitGetBatchSize ==
    /\ fn = "get_batch_size"
    /\ pc = "call"
    /\ \E x \in BatchInputs : args = [x |-> x]
    /\ out = NoOut

CallGetBatchSize ==
    /\ fn = "get_batch_size"
    /\ pc = "call"
    /\ out' = get_batch_size(args.x)
    /\ pc' = IF out'.exc = "none" THEN "returned" ELSE "raised"
    /\ UNCHANGED <<fn, args>>

(***************************************************************************)
(* Values of metric dictionaries                                           *)
(***************************************************************************)

\* Largest number of key/value entries in one nested dictionary given to
\* flatten, all levels counted.
MaxEntries == 3

\* The same for the metrics given to step_log_metrics.
MaxMetricEntries == 2

\* A dict is its entries <<key, value>> in insertion order, keys distinct.
Dict(entries) == [kind |-> "dict", items |-> entries]

EmptyDict == Dict(<<>>)

NoneValue == [kind |-> "NoneType"]

IntVal(n) == [kind |-> "int", v |-> n]

StrVal(s) == [kind |-> "str", s |-> s]

ListVal(elems) == [kind |-> "list", elems |-> elems]

\* types.MappingProxyType: a Mapping that is not a MutableMapping.
MappingProxy == [kind |-> "mappingproxy"]

\* isinstance(value, MutableMapping), line 96
IsMutableMapping(value) == value.kind = "dict"

\* isinstance(value, Number), line 125
IsNumber(value) == value.kind \in {"int", "float", "bool"}

\* bool(value), line 125
Truthy(value) ==
    CASE value.kind = "NoneType" -> FALSE
      [] value.kind \in {"int", "float"} -> value.v # 0
      [] value.kind = "bool" -> value.v
      [] value.kind = "str" -> value.s # ""
      [] value.kind = "list" -> value.elems # <<>>
      [] value.kind = "dict" -> value.items # <<>>
      [] OTHER -> TRUE

KeysOf(entries) == {entries[i][1] : i \in 1..Len(entries)}

\* The dicts over keys K with exactly n entries in all, their values being
\* leaves from L or smaller dicts.
RECURSIVE DictsExact(_, _, _)
DictsExact(n, K, L) ==
    IF n = 0 THEN {EmptyDict}
    ELSE UNION {
           {Dict(<< <<k, v>> >> \o rest.items) :
               k \in K \ KeysOf(rest.items),
               v \in (IF a = 0 THEN L \cup {EmptyDict}
                      ELSE DictsExact(a, K, L))} :
           <<a, rest>> \in UNION {{<<b, r>> : r \in DictsExact(n - 1 - b, K, L)} :
                                   b \in 0..(n - 1)}}

DictsUpTo(n, K, L) == UNION {DictsExact(m, K, L) : m \in 0..n}

(***************************************************************************)
(* flatten                                                                 *)
(***************************************************************************)

FlattenKeys == {"", "a", "a/a"}

FlattenLeaves == {IntVal(0), IntVal(1), MappingProxy}

Separators == {"/", "."}

ParentKeys == {"", "p"}

\* dict(items), line 100: a later pair with a key already seen replaces the
\* value and keeps the place of the first.
RECURSIVE dict_of(_)
dict_of(pairs) ==
    IF pairs = <<>> THEN <<>>
    ELSE LET init == dict_of(SubSeq(pairs, 1, Len(pairs) - 1))
             last == pairs[Len(pairs)]
         IN  IF last[1] \in KeysOf(init)
             THEN [i \in 1..Len(init) |->
                     IF init[i][1] = last[1] THEN last ELSE init[i]]
             ELSE Append(init, last)

\* new_key_of with the test of parent_key forgotten: the separator is put
\* in front of every key.
new_key_of_AlwaysJoins(parent_key, separator, key) ==
    parent_key \o separator \o key

\* Line 95.
new_key_of(parent_key, separator, key) ==
    IF parent_key # "" THEN parent_key \o separator \o key ELSE key

\* Lines 93-100; flatten_items is the loop over dictionary.items().
RECURSIVE flatten(_, _, _), flatten_items(_, _, _)
flatten(dictionary, parent_key, separator) ==
    Dict(dict_of(flatten_items(dictionary.items, parent_key, separator)))

flatten_items(entries, parent_key, separator) ==
    IF entries = <<>> THEN <<>>
    ELSE LET key == Head(entries)[1]
             value == Head(entries)[2]
             new_key == new_key_of(parent_key, separator, key)
         IN  (IF IsMutableMapping(value)
              THEN flatten(value, new_key, separator).items
              ELSE << <<new_key, value>> >>)
             \o flatten_items(Tail(entries), parent_key, separator)

InitFlatten ==
    /\ fn = "flatten"
    /\ pc = "call"
    /\ \E dictionary \in DictsUpTo(MaxEntries, FlattenKeys, FlattenLeaves),
          parent_key \in ParentKeys, separator \in Separators :
         args = [dictionary |-> dictionary, parent_key |-> parent_key,
                 separator |-> separator]
    /\ out = NoOut

CallFlatten ==
    /\ fn = "flatten"
    /\ pc = "call"
    /\ out' = [exc |-> "none",
               result |-> flatten(args.dictionary, args.parent_key,
                                  args.separator)]
    /\ pc' = "returned"
    /\ UNCHANGED <<fn, args>>

(***************************************************************************)
(* Scalars and the log writer                                              *)
(***************************************************************************)

\* A float is a decimal fixed-point number: an integer count of units of
\* 10^-FracDigits.
FracDigits == 7

\* Learning rates are rounded to 6 decimals (lines 73 and 121), the best
\* metric to 2 (line 75).
LrDigits == 6

BestMetricDigits == 2

\* Longest list of learning rates.
MaxLrs == 2

\* Largest step or epoch.
MaxStep == 1

RECURSIVE Pow10(_)
Pow10(n) == IF n <= 0 THEN 1 ELSE 10 * Pow10(n - 1)

Float(units) == [kind |-> "float", v |-> units]

\* round(x, ndigits) on a float: to the nearest multiple of 10^-ndigits, a
\* tie going to the even multiple.
round(x, ndigits) ==
    LET q == Pow10(FracDigits - ndigits)
        lo == (x.v \div q) * q
        rem == x.v - lo
    IN  Float(IF 2 * rem < q THEN lo
              ELSE IF 2 * rem > q THEN lo + q
              ELSE IF (lo \div q) % 2 = 0 THEN lo ELSE lo + q)

\* Learning rates: 3e-7, 1.5e-6 and 2.5e-6 when FracDigits = 7.
LrValues == {Float(3), Float(15), Float(25)}

\* lrs: one float, or a list of floats.
LrsInputs ==
    LrValues \cup
    {ListVal(e) : e \in UNION {[1..n -> LrValues] : n \in 0..MaxLrs}}

Steps == 0..MaxStep

\* log_writer.add_scalar(tag, value, step): the call as the writer sees it.
add_scalar(tag, value, step) == [tag |-> tag, value |-> value, step |-> step]

\* Lines 70-73 and 118-121: one "LR/Group-<g_id>" per learning rate.
lr_calls(lrs, step) ==
    LET lrs_list == IF lrs.kind # "list" THEN <<lrs>> ELSE lrs.elems
    IN  [i \in 1..Len(lrs_list) |->
            add_scalar("LR/Group-" \o ToString(i - 1),
                       round(lrs_list[i], LrDigits), step)]

(***************************************************************************)
(* step_log_metrics                                                        *)
(***************************************************************************)

MetricKeys == {"", "loss"}

MetricLeaves ==
    {IntVal(0), IntVal(1), NoneValue, StrVal(""), StrVal("s"),
     ListVal(<<>>)}

MetricsInputs ==
    {NoneValue} \cup DictsUpTo(MaxMetricEntries, MetricKeys, MetricLeaves)

\* should_log without the Number test: a zero is skipped like None.
should_log_TruthyOnly(metric_value) == Truthy(metric_value)

\* Line 125: what is not skipped.
should_log(metric_value) == IsNumber(metric_value) \/ Truthy(metric_value)

\* Lines 124-127: the loop over flattened_metrics.items().
RECURSIVE metric_calls(_, _)
metric_calls(entries, step) ==
    IF entries = <<>> THEN <<>>
    ELSE LET metric_name == Head(entries)[1]
             metric_value == Head(entries)[2]
         IN  (IF ~should_log(metric_value)
              THEN <<>>
              ELSE <<add_scalar(metric_name, metric_value, step)>>)
             \o metric_calls(Tail(entries), step)

\* Lines 118-127: the add_scalar calls made, in order.
step_log_metrics(lrs, step, metrics) ==
    lr_calls(lrs, step)
    \o (IF metrics # NoneValue
        THEN metric_calls(flatten(metrics, "", "/").items, step)
        ELSE <<>>)

InitStepLogMetrics ==
    /\ fn = "step_log_metrics"
    /\ pc = "call"
    /\ \E lrs \in LrsInputs, step \in Steps, metrics \in MetricsInputs :
         args = [lrs |-> lrs, step |-> step, metrics |-> metrics]
    /\ out = NoOut

CallStepLogMetrics ==
    /\ fn = "step_log_metrics"
    /\ pc = "call"
    /\ out' = [exc |-> "none",
               calls |-> step_log_metrics(args.lrs, args.step, args.metrics)]
    /\ pc' = "returned"
    /\ UNCHANGED <<fn, args>>

(***************************************************************************)
(* log_metrics                                                             *)
(***************************************************************************)

\* Best metrics: 0.1234567, 0.125 and 0.135 when FracDigits = 7.
BestMetrics == {Float(1234567), Float(1250000), Float(1350000)}

Losses == {Float(0), Float(5000000)}

\* An optional argument: None or a value.
OptionalFloats == {NoneValue, Float(5000000)}

OptionalNames == {NoneValue, StrVal("top1")}

\* The arguments log_metrics takes besides lrs, epoch and best_metric.
UnusedArgs ==
    [train_loss : Losses, val_loss : Losses, val_ema_loss : OptionalFloats,
     ckpt_metric_name : OptionalNames, train_ckpt_metric : OptionalFloats,
     val_ckpt_metric : OptionalFloats, val_ema_ckpt_metric : OptionalFloats]

\* log_metrics logging the training loss as well.
log_metrics_LogsTrainLoss(lrs, epoch, best_metric, unused) ==
    Append(Append(lr_calls(lrs, epoch),
                  add_scalar("Common/Best Metric",
                             round(best_metric, BestMetricDigits), epoch)),
           add_scalar("Train/Loss", unused.train_loss, epoch))

\* Lines 70-75: the add_scalar calls made, in order.
log_metrics(lrs, epoch, best_metric, unused) ==
    Append(lr_calls(lrs, epoch),
           add_scalar("Common/Best Metric",
                      round(best_metric, BestMetricDigits), epoch))

InitLogMetrics ==
    /\ fn = "log_metrics"
    /\ pc = "call"
    /\ \E lrs \in LrsInputs, epoch \in Steps, best_metric \in BestMetrics,
          unused \in UnusedArgs :
         args = [lrs |-> lrs, epoch |-> epoch, best_metric |-> best_metric,
                 unused |-> unused]
    /\ out = NoOut

CallLogMetrics ==
    /\ fn = "log_metrics"
    /\ pc = "call"
    /\ out' = [exc |-> "none",
               calls |-> log_metrics(args.lrs, args.epoch, args.best_metric,
                                     args.unused)]
    /\ pc' = "returned"
    /\ UNCHANGED <<fn, args>>

(***************************************************************************)
(* The specification                                                       *)
(***************************************************************************)

Init ==
    \/ InitGetLogWriters
    \/ InitAutocast
    \/ InitGetBatchSize
    \/ InitFlatten
    \/ InitStepLogMetrics
    \/ InitLogMetrics

Next ==
    \/ CallGetLogWriters
    \/ CallAutocast
    \/ CallGetBatchSize
    \/ CallFlatten
    \/ CallStepLogMetrics
    \/ CallLogMetrics

Spec == Init /\ [][Next]_vars


(***************************************************************************)
(* Properties of get_log_writers                                           *)
(***************************************************************************)

Finished == pc # "call"

\* The option is set and true.
OptionOn(name) == name \in DOMAIN args.opts /\ args.opts[name]

WriterClasses == {out.log_writers[i].cls : i \in 1..Len(out.log_writers)}

TbAvailable == args.env.tb_import = "ok"

BoltAvailable == args.env.bolt_import = "ok"

HubAvailable == args.env.hub_import = "ok" /\ args.env.hub_init = "ok"

HasSaveLocation == args.save_location # None

\* C1: on the master node, in the list get_log_writers returns, an enabled
\* backend that is unavailable (tensorboard import fails, bolt or hub module
\* not found, HubLogger(opts) raises) is absent, and every backend that is
\* enabled, available and has its save_location condition met is present.
C1_UnavailableSkipped ==
    (fn = "get_log_writers" /\ pc = "returned" /\ args.is_master) =>
        /\ (OptionOn("common.tensorboard_logging") /\ ~TbAvailable)
              => "SummaryWriter" \notin WriterClasses
        /\ (OptionOn("common.bolt_logging") /\ ~BoltAvailable)
              => "BoltLogger" \notin WriterClasses
        /\ (OptionOn("common.hub.logging") /\ ~HubAvailable)
              => "HubLogger" \notin WriterClasses
        /\ (OptionOn("common.tensorboard_logging") /\ TbAvailable
                /\ HasSaveLocation)
              => "SummaryWriter" \in WriterClasses
        /\ (OptionOn("common.bolt_logging") /\ BoltAvailable)
              => "BoltLogger" \in WriterClasses
        /\ (OptionOn("common.hub.logging") /\ HubAvailable)
              => "HubLogger" \in WriterClasses
        /\ (OptionOn("common.file_logging") /\ HasSaveLocation)
              => "FileLogger" \in WriterClasses

\* A master call with all four options on and a save location, where
\* tensorboard cannot be imported and HubLogger(opts) raises: the list
\* returned holds the bolt and file writers only.
C1_Witness ==
    /\ fn = "get_log_writers" /\ pc = "returned" /\ args.is_master
    /\ \A n \in OptionNames : OptionOn(n)
    /\ HasSaveLocation
    /\ ~TbAvailable /\ BoltAvailable
    /\ args.env.hub_import = "ok" /\ args.env.hub_init = "Exception"
    /\ WriterClasses = {"BoltLogger", "FileLogger"}

\* C2: get_log_writers never ends in an error, whatever the options (true,
\* false or not set), the save location, the master status and the
\* availability of the backends: it always returns a list.
C2_NeverRaises ==
    (fn = "get_log_writers" /\ Finished) => pc = "returned"

\* C8: on a non-master node get_log_writers returns the empty list and has
\* no effect: no directory created, no backend imported or constructed, no
\* logging option read, nothing logged.
C8_NonMasterNoEffect ==
    (fn = "get_log_writers" /\ Finished /\ ~args.is_master) =>
        /\ pc = "returned"
        /\ out.log_writers = <<>>
        /\ out.dirs = {}
        /\ out.imports = {}
        /\ out.read = {}
        /\ out.logs = <<>>

\* A non-master call with every option on, a save location and every
\* backend available.
C8_Witness ==
    /\ fn = "get_log_writers" /\ Finished /\ ~args.is_master
    /\ \A n \in OptionNames : OptionOn(n)
    /\ HasSaveLocation
    /\ TbAvailable /\ BoltAvailable /\ HubAvailable

\* The place of a writer in the fixed order tensorboard, bolt, hub, file.
WriterRank(cls) ==
    CASE cls = "SummaryWriter" -> 1
      [] cls = "BoltLogger" -> 2
      [] cls = "HubLogger" -> 3
      [] cls = "FileLogger" -> 4

\* C9: the list returned holds each backend at most once, in the order
\* tensorboard, bolt, hub, file; the tensorboard and file writers are there
\* only if their option is on and save_location is not None; the bolt and
\* hub writers are there exactly when the node is master and their option is
\* on and they are available, whatever save_location is; and the tb_logs
\* directory is created only when the tensorboard writer is added.
C9_OrderAndConditions ==
    (fn = "get_log_writers" /\ Finished) =>
        /\ pc = "returned" =>
            /\ \A i, j \in 1..Len(out.log_writers) :
                 i < j => WriterRank(out.log_writers[i].cls)
                            < WriterRank(out.log_writers[j].cls)
            /\ Len(out.log_writers) <= 4
            /\ "SummaryWriter" \in WriterClasses =>
                 OptionOn("common.tensorboard_logging") /\ HasSaveLocation
            /\ "FileLogger" \in WriterClasses =>
                 OptionOn("common.file_logging") /\ HasSaveLocation
            /\ "BoltLogger" \in WriterClasses <=>
                 (args.is_master /\ OptionOn("common.bolt_logging")
                    /\ BoltAvailable)
            /\ "HubLogger" \in WriterClasses <=>
                 (args.is_master /\ OptionOn("common.hub.logging")
                    /\ HubAvailable)
        /\ out.dirs # {} =>
            /\ "SummaryWriter" \in WriterClasses
            /\ out.dirs = {args.save_location \o "/tb_logs"}

\* A master call with save_location None and every option on: the list
\* returned holds the bolt and hub writers, in that order, and nothing else.
C9_Witness ==
    /\ fn = "get_log_writers" /\ pc = "returned" /\ args.is_master
    /\ ~HasSaveLocation
    /\ \A n \in OptionNames : OptionOn(n)
    /\ Len(out.log_writers) = 2
    /\ out.log_writers[1].cls = "BoltLogger"
    /\ out.log_writers[2].cls = "HubLogger"

(***************************************************************************)
(* Properties of autocast_fn                                               *)
(***************************************************************************)

\* C3: autocast_fn with enabled=True returns an enabled mixed-precision
\* context only when amp_precision is float16 or bfloat16 and CUDA is
\* available; otherwise the call ends in a reported error and hands no
\* context back.
C3_EnabledNeedsDtypeAndCuda ==
    (fn = "autocast_fn" /\ Finished /\ args.enabled) =>
        IF args.amp_precision \in {"float16", "bfloat16"} /\ args.cuda
        THEN /\ pc = "returned"
             /\ out.result.enabled
             /\ out.result.dtype = "torch." \o args.amp_precision
        ELSE /\ pc = "raised"
             /\ Len(out.reported) = 1
             /\ "result" \notin DOMAIN out

\* An enabled call with a supported precision and no CUDA device has ended
\* in a reported error.
C3_Witness ==
    /\ fn = "autocast_fn" /\ Finished /\ args.enabled
    /\ args.amp_precision = "bfloat16" /\ ~args.cuda
    /\ pc = "raised"
    /\ out.reported = <<"For mixed-precision training, CUDA device is required.">>

(***************************************************************************)
(* Properties of get_batch_size                                            *)
(***************************************************************************)

\* The priority of a key: image before video before audio.
KeyPriority(k) ==
    CASE k = "image" -> 1 [] k = "video" -> 2 [] k = "audio" -> 3

MediaKeys == {"image", "video", "audio"}

HasMediaKey(x) == MediaKeys \cap DOMAIN x.items # {}

\* The key of highest priority among those the dict has.
SelectedKey(x) ==
    CHOOSE k \in MediaKeys \cap DOMAIN x.items :
        \A l \in MediaKeys \cap DOMAIN x.items :
            KeyPriority(k) <= KeyPriority(l)

\* The value the chain of selected keys leads to: x itself unless x is a
\* dict with one of the three keys.
RECURSIVE Resolved(_)
Resolved(x) ==
    IF x.kind = "Dict" /\ HasMediaKey(x)
    THEN Resolved(x.items[SelectedKey(x)])
    ELSE x

\* Unsupported: not a tensor, dict or list; a dict with none of the three
\* keys; or a dict whose selected value is unsupported.
Unsupported(x) == Resolved(x).kind \notin {"Tensor", "List"}

\* x with every dict on the chain of selected keys cut down to its selected
\* key.
RECURSIVE Pruned(_)
Pruned(x) ==
    IF x.kind = "Dict" /\ HasMediaKey(x)
    THEN [kind |-> "Dict",
          items |-> [k \in {SelectedKey(x)} |-> Pruned(x.items[k])]]
    ELSE x

\* C4 as stated: get_batch_size raises NotImplementedError exactly for the
\* unsupported inputs, and for every other input returns an integer and
\* raises nothing.
C4_RaisesExactlyForUnsupported ==
    (fn = "get_batch_size" /\ Finished) =>
        IF Unsupported(args.x)
        THEN pc = "raised" /\ out.exc = "NotImplementedError"
        ELSE pc = "returned" /\ out.result \in Nat

\* C4, amended: get_batch_size raises NotImplementedError exactly for the
\* unsupported inputs; for every other input it returns an integer and
\* raises nothing, except that a tensor of no dimension (the input, or the
\* value the selected keys lead to) raises IndexError.
C4_RaisesForUnsupportedOrScalar ==
    (fn = "get_batch_size" /\ Finished) =>
        IF Unsupported(args.x)
        THEN pc = "raised" /\ out.exc = "NotImplementedError"
        ELSE IF Resolved(args.x).kind = "Tensor"
                /\ Resolved(args.x).shape = <<>>
        THEN pc = "raised" /\ out.exc = "IndexError"
        ELSE pc = "returned" /\ out.result \in Nat

\* A dict whose image value is unsupported and whose video value is a
\* tensor with dimensions has raised NotImplementedError.
C4_Witness ==
    /\ fn = "get_batch_size" /\ pc = "raised"
    /\ out.exc = "NotImplementedError"
    /\ args.x.kind = "Dict"
    /\ {"image", "video"} \subseteq DOMAIN args.x.items
    /\ args.x.items["image"].kind = "NoneType"
    /\ args.x.items["video"].kind = "Tensor"
    /\ args.x.items["video"].shape # <<>>

\* C5: get_batch_size returns the size of the first dimension of a tensor,
\* the length of a list, and for a dict the batch size of the value under
\* the first present of image, video, audio, recursively; the other keys of
\* a dict do not influence the outcome; and the call ends for every input.
C5_BatchSizeOfSelected ==
    /\ (fn = "get_batch_size" /\ pc = "call") => ENABLED CallGetBatchSize
    /\ (fn = "get_batch_size" /\ pc = "returned") =>
          LET r == Resolved(args.x)
          IN  /\ r.kind = "Tensor" => out.result = Head(r.shape)
              /\ r.kind = "List" => out.result = Len(r.elems)
    /\ (fn = "get_batch_size" /\ Finished) =>
          out = get_batch_size(Pruned(args.x))

\* A dict without image, with a two-dimensional video tensor whose first
\* dimension differs from its second, and with another key: the first
\* dimension was returned.
C5_Witness ==
    /\ fn = "get_batch_size" /\ pc = "returned"
    /\ args.x.kind = "Dict"
    /\ "image" \notin DOMAIN args.x.items
    /\ {"video", "audio"} \subseteq DOMAIN args.x.items
    /\ args.x.items["video"].kind = "Tensor"
    /\ Len(args.x.items["video"].shape) = 2
    /\ args.x.items["video"].shape[1] # args.x.items["video"].shape[2]
    /\ out.result = args.x.items["video"].shape[1]

(***************************************************************************)
(* Properties of flatten                                                   *)
(***************************************************************************)

\* The leaves of a nested dictionary in the order of a depth-first walk,
\* each with the keys that lead to it.  A dict is walked into; every other
\* value is a leaf.
RECURSIVE LeafSeq(_, _)
LeafSeq(entries, path) ==
    IF entries = <<>> THEN <<>>
    ELSE LET key == Head(entries)[1]
             value == Head(entries)[2]
         IN  (IF value.kind = "dict"
              THEN LeafSeq(value.items, Append(path, key))
              ELSE <<[path |-> Append(path, key), value |-> value]>>)
             \o LeafSeq(Tail(entries), path)

\* k1 + separator + k2 + ... + separator + kn
RECURSIVE Joined(_, _)
Joined(path, separator) ==
    IF Len(path) = 1 THEN path[1]
    ELSE Joined(SubSeq(path, 1, Len(path) - 1), separator)
            \o separator \o path[Len(path)]

\* The key C6 gives a leaf: the joined path, with parent_key + separator in
\* front when parent_key is not empty.
ClaimedKey(path, parent_key, separator) ==
    IF parent_key # ""
    THEN parent_key \o separator \o Joined(path, separator)
    ELSE Joined(path, separator)

\* The key flatten gives a leaf: parent_key and the keys of the path joined
\* from left to right, where joining to an empty string adds no separator.
RECURSIVE FlatKey(_, _, _)
FlatKey(path, parent_key, separator) ==
    IF path = <<>> THEN parent_key
    ELSE LET front == FlatKey(SubSeq(path, 1, Len(path) - 1), parent_key,
                              separator)
         IN  IF front = "" THEN path[Len(path)]
             ELSE front \o separator \o path[Len(path)]

InputLeaves == LeafSeq(args.dictionary.items, <<>>)

\* C6 as stated, a mapping being what flatten takes for one (a
\* MutableMapping): no value of the result is a mapping; every leaf of the
\* input, reached through k1, ..., kn, is in the result under the joined
\* key; and the result has exactly one entry per leaf.
C6_OneEntryPerLeaf ==
    (fn = "flatten" /\ pc = "returned") =>
        LET res == out.result.items
            leaves == InputLeaves
        IN  /\ \A i \in 1..Len(res) : ~IsMutableMapping(res[i][2])
            /\ \A j \in 1..Len(leaves) :
                 \E i \in 1..Len(res) :
                    /\ res[i][1] = ClaimedKey(leaves[j].path,
                                      args.parent_key, args.separator)
                    /\ res[i][2] = leaves[j].value
            /\ Len(res) = Len(leaves)

\* C6, amended: no value of the result is a MutableMapping; a leaf is any
\* value that is not a MutableMapping; the key of a leaf is parent_key and
\* the keys on its path joined from left to right with the separator, where
\* an empty string so far is dropped instead of joined; the result has
\* exactly one entry per distinct key of a leaf, mapped to the value of the
\* last leaf, in the order of the walk, that has this key.
C6_OneEntryPerFlatKey ==
    (fn = "flatten" /\ pc = "returned") =>
        LET res == out.result.items
            leaves == InputLeaves
            KeyOf(j) == FlatKey(leaves[j].path, args.parent_key,
                                args.separator)
        IN  /\ \A i \in 1..Len(res) : ~IsMutableMapping(res[i][2])
            /\ \A i, j \in 1..Len(res) : res[i][1] = res[j][1] => i = j
            /\ {res[i][1] : i \in 1..Len(res)}
                  = {KeyOf(j) : j \in 1..Len(leaves)}
            /\ \A i \in 1..Len(res) :
                 \E j \in 1..Len(leaves) :
                    /\ KeyOf(j) = res[i][1]
                    /\ leaves[j].value = res[i][2]
                    /\ \A l \in (j + 1)..Len(leaves) : KeyOf(l) # res[i][1]

\* A nested input with two leaves under a non-empty parent_key, both with
\* the same key: the result has one entry, with the value of the second.
C6_Witness ==
    /\ fn = "flatten" /\ pc = "returned"
    /\ args.parent_key # ""
    /\ \E i \in 1..Len(args.dictionary.items) :
          IsMutableMapping(args.dictionary.items[i][2])
    /\ Len(InputLeaves) = 2
    /\ InputLeaves[1].value # InputLeaves[2].value
    /\ Len(out.result.items) = 1
    /\ out.result.items[1][2] = InputLeaves[2].value

(***************************************************************************)
(* Properties of step_log_metrics and log_metrics                          *)
(***************************************************************************)

\* The learning rates as a sequence: a value that is not a list is the one
\* rate of group 0.
LrSeq == IF args.lrs.kind = "list" THEN args.lrs.elems ELSE <<args.lrs>>

\* r is x rounded to ndigits decimals.
IsRounded(r, x, ndigits) ==
    LET q == Pow10(FracDigits - ndigits)
        d == IF r.v >= x.v THEN r.v - x.v ELSE x.v - r.v
    IN  /\ r.kind = "float"
        /\ r.v % q = 0
        /\ 2 * d <= q

\* The first calls are one "LR/Group-i" per learning rate, in index order,
\* with the rate rounded to 6 decimals and the given step.
LrCallsFirst(step) ==
    /\ Len(out.calls) >= Len(LrSeq)
    /\ \A i \in 1..Len(LrSeq) :
         /\ out.calls[i].tag = "LR/Group-" \o ToString(i - 1)
         /\ IsRounded(out.calls[i].value, LrSeq[i], 6)
         /\ out.calls[i].step = step

\* Logged: a Number, zero included, or a truthy value; None, the empty
\* string and the empty list are skipped.
Logged(entry) ==
    \/ entry[2].kind \in {"int", "float", "bool"}
    \/ entry[2] \notin {NoneValue, StrVal(""), ListVal(<<>>)}

\* C7: step_log_metrics makes one fixed sequence of add_scalar calls, all
\* with the given step: one "LR/Group-i" per learning rate in index order
\* with the rate rounded to 6 decimals, then one call per entry of
\* flatten(metrics), in flatten order and under its flattened name, that is
\* a Number or truthy; only the learning-rate calls when metrics is None;
\* and no entry is logged twice.
C7_StepLogSequence ==
    (fn = "step_log_metrics" /\ pc = "returned") =>
        LET n == Len(LrSeq)
            entries == IF args.metrics = NoneValue THEN <<>>
                       ELSE SelectSeq(flatten(args.metrics, "", "/").items,
                                      Logged)
            rest == SubSeq(out.calls, n + 1, Len(out.calls))
        IN  /\ LrCallsFirst(args.step)
            /\ Len(rest) = Len(entries)
            /\ \A i \in 1..Len(rest) :
                 /\ rest[i].tag = entries[i][1]
                 /\ rest[i].value = entries[i][2]
                 /\ rest[i].step = args.step
            /\ \A i, j \in 1..Len(rest) : rest[i].tag = rest[j].tag => i = j

\* Two learning rates and metrics with a zero and a None: the calls are the
\* two rates and then the zero.
C7_Witness ==
    /\ fn = "step_log_metrics" /\ pc = "returned"
    /\ args.lrs.kind = "list" /\ Len(args.lrs.elems) = 2
    /\ args.metrics # NoneValue
    /\ \E i, j \in 1..Len(args.metrics.items) :
          /\ args.metrics.items[i][2] = IntVal(0)
          /\ args.metrics.items[j][2] = NoneValue
    /\ Len(out.calls) = 3
    /\ out.calls[3].value = IntVal(0)

\* The unused arguments of log_metrics at their defaults.
DefaultUnused ==
    [train_loss |-> Float(0), val_loss |-> Float(0),
     val_ema_loss |-> NoneValue, ckpt_metric_name |-> NoneValue,
     train_ckpt_metric |-> NoneValue, val_ckpt_metric |-> NoneValue,
     val_ema_ckpt_metric |-> NoneValue]

\* C10: log_metrics makes exactly len(lrs) + 1 add_scalar calls, all with
\* the given epoch: one "LR/Group-i" per learning rate in index order, then
\* one "Common/Best Metric" with best_metric rounded to 2 decimals; the
\* other arguments change neither the calls nor their values.
C10_LogMetricsCalls ==
    (fn = "log_metrics" /\ pc = "returned") =>
        LET n == Len(LrSeq)
        IN  /\ Len(out.calls) = n + 1
            /\ LrCallsFirst(args.epoch)
            /\ out.calls[n + 1].tag = "Common/Best Metric"
            /\ IsRounded(out.calls[n + 1].value, args.best_metric, 2)
            /\ out.calls[n + 1].step = args.epoch
            /\ out.calls = log_metrics(args.lrs, args.epoch,
                                       args.best_metric, DefaultUnused)

\* Two learning rates and every optional argument given: three calls.
C10_Witness ==
    /\ fn = "log_metrics" /\ pc = "returned"
    /\ args.lrs.kind = "list" /\ Len(args.lrs.elems) = 2
    /\ args.unused.val_ema_loss # NoneValue
    /\ args.unused.ckpt_metric_name # NoneValue
    /\ args.unused.train_ckpt_metric # NoneValue
    /\ args.unused.val_ckpt_metric # NoneValue
    /\ args.unused.val_ema_ckpt_metric # NoneValue
    /\ args.unused.train_loss # Float(0)
    /\ Len(out.calls) = 3

=============================================================================
